---- MODULE Spec2Model ----
(***************************************************************************)
(* Model of server/ml/train_and_predict.py: the scoring engine (certificate *)
(* parsing, min-max normalisation, the three composite scores, the label    *)
(* threshold of the trainer) and the delete-then-insert reconciler that     *)
(* writes firma_tahminleme and girisimci_tahminleme.                        *)
(*                                                                         *)
(* Python / JSON values are tagged records.  Numbers are exact rationals    *)
(* n/d in lowest terms (IEEE rounding is not modelled).  Text is a sequence *)
(* of one-character strings.                                               *)
(***************************************************************************)
EXTENDS Integers, Sequences, FiniteSets, TLC

VARIABLES
    firmalar,               \* source table: [cols, rows]
    girisimciler,           \* source table: [cols, rows]
    firma_tahminleme,       \* prediction store: sequence of firm prediction rows
    girisimci_tahminleme,   \* prediction store: sequence of entrepreneur prediction rows
    unreadable,             \* per process: tables whose select fails while its run lasts
    pc,                     \* per process: position of the run
    exitCode,               \* per process: exit status of the last run (-1: none yet)
    out_rows,               \* per process: the rows built by the current process_* call
    delIdx,                 \* per process: index of the next delete call in the id list
    metricsOf,              \* per process: [firma, girisimci] -> "unset" | "none" | "metrics"
    calls,                  \* per process: the write calls issued by the current run, in order
    clock,                  \* number of runs started; utcnow() of the latest run
    exits,                  \* exit statuses of the runs that ended, in order
    log,                    \* the write calls of all runs in the order the store served them
    scoreIn,                \* scoring harness: [kind, table] to score
    scoreOut,               \* scoring harness: result of the scoring stage
    certIn,                 \* certificate harness: the raw sertifikalar value
    certOut                 \* certificate harness: result of extract_cert_features

runVars == <<firmalar, girisimciler, firma_tahminleme, girisimci_tahminleme,
             unreadable, pc, exitCode, out_rows, delIdx, metricsOf, calls, clock, exits>>
logVars == <<log>>
scoreVars == <<scoreIn, scoreOut>>
certVars == <<certIn, certOut>>
vars == <<runVars, logVars, scoreVars, certVars>>

(***************************************************************************)
(* Values                                                                  *)
(***************************************************************************)
RECURSIVE GCD(_, _)
GCD(a, b) == IF b = 0 THEN a ELSE GCD(b, a % b)

Abs(x) == IF x < 0 THEN -x ELSE x

None == [t |-> "none"]
NaN == [t |-> "nan"]
Rat(n, d) ==
    LET g == GCD(Abs(n), Abs(d))
        s == IF d < 0 THEN -1 ELSE 1
    IN  [t |-> "num", n |-> (s * n) \div g, d |-> (s * d) \div g]
Num(n) == [t |-> "num", n |-> n, d |-> 1]
Bool(b) == [t |-> "bool", b |-> b]
Str(s) == [t |-> "str", s |-> s]
List(items) == [t |-> "list", items |-> items]
Dict(pairs) == [t |-> "dict", pairs |-> pairs]
Date(days) == [t |-> "date", days |-> days]

IsNum(x) == x.t = "num"
\* pd.isna on a scalar
IsNa(x) == x.t \in {"none", "nan"}

\* Python truthiness, as used by `a or b`
Truthy(x) ==
    CASE x.t = "none" -> FALSE
      [] x.t = "nan" -> TRUE
      [] x.t = "num" -> x.n # 0
      [] x.t = "bool" -> x.b
      [] x.t = "str" -> Len(x.s) > 0
      [] x.t = "list" -> Len(x.items) > 0
      [] x.t = "dict" -> Len(x.pairs) > 0
      [] OTHER -> TRUE

\* Float arithmetic: NaN propagates
Add(x, y) == IF IsNum(x) /\ IsNum(y) THEN Rat(x.n * y.d + y.n * x.d, x.d * y.d) ELSE NaN
Sub(x, y) == IF IsNum(x) /\ IsNum(y) THEN Rat(x.n * y.d - y.n * x.d, x.d * y.d) ELSE NaN
Mul(x, y) == IF IsNum(x) /\ IsNum(y) THEN Rat(x.n * y.n, x.d * y.d) ELSE NaN
Div(x, y) == IF IsNum(x) /\ IsNum(y) /\ y.n # 0 THEN Rat(x.n * y.d, x.d * y.n) ELSE NaN
Less(x, y) == x.n * y.d < y.n * x.d
Leq(x, y) == x.n * y.d <= y.n * x.d

\* Series.fillna(v)
FillNa(s, v) == [i \in DOMAIN s |-> IF IsNa(s[i]) THEN v ELSE s[i]]

(***************************************************************************)
(* Text                                                                    *)
(***************************************************************************)
Digits == <<"0", "1", "2", "3", "4", "5", "6", "7", "8", "9">>
DigitSet == {Digits[i] : i \in 1..10}
DigitVal(c) == (CHOOSE i \in 1..10 : Digits[i] = c) - 1

LowerCase == <<"a", "b", "c", "d", "e", "f", "g", "h", "i", "j", "k", "l", "m",
               "n", "o", "p", "q", "r", "s", "t", "u", "v", "w", "x", "y", "z">>
UpperCase == <<"A", "B", "C", "D", "E", "F", "G", "H", "I", "J", "K", "L", "M",
               "N", "O", "P", "Q", "R", "S", "T", "U", "V", "W", "X", "Y", "Z">>

\* str.upper() on one (ASCII) character
UpperChar(c) ==
    IF \E i \in 1..26 : LowerCase[i] = c
    THEN UpperCase[CHOOSE i \in 1..26 : LowerCase[i] = c]
    ELSE c

Upper(s) == [i \in 1..Len(s) |-> UpperChar(s[i])]

\* `p in s` for strings
Contains(s, p) ==
    \E i \in 1..(Len(s) - Len(p) + 1) : SubSeq(s, i, i + Len(p) - 1) = p

StartsAt(s, i, p) ==
    /\ i + Len(p) - 1 <= Len(s)
    /\ SubSeq(s, i, i + Len(p) - 1) = p

RECURSIVE NatToStr(_)
NatToStr(n) ==
    IF n < 10 THEN <<Digits[n + 1]>> ELSE NatToStr(n \div 10) \o <<Digits[(n % 10) + 1]>>

IntToStr(n) == IF n < 0 THEN <<"-">> \o NatToStr(-n) ELSE NatToStr(n)

RECURSIVE Join(_, _)
\* sep.join(parts)
Join(parts, sep) ==
    IF Len(parts) = 0 THEN <<>>
    ELSE IF Len(parts) = 1 THEN parts[1]
    ELSE parts[1] \o sep \o Join(Tail(parts), sep)

(***************************************************************************)
(* json.loads, on the JSON subset without escapes, fractions and exponents *)
(***************************************************************************)
ParseFail == [ok |-> FALSE, val |-> None, next |-> 0]
ParseOk(v, n) == [ok |-> TRUE, val |-> v, next |-> n]

RECURSIVE SkipWs(_, _)
SkipWs(s, i) == IF i <= Len(s) /\ s[i] = " " THEN SkipWs(s, i + 1) ELSE i

\* s[i] is the opening quote
ParseString(s, i) ==
    LET closing == {j \in (i + 1)..Len(s) : s[j] = "\""}
    IN  IF closing = {} THEN ParseFail
        ELSE LET j == CHOOSE k \in closing : \A m \in closing : k <= m
                 body == SubSeq(s, i + 1, j - 1)
             IN  IF \E k \in 1..Len(body) : body[k] = "\\" THEN ParseFail
                 ELSE ParseOk(Str(body), j + 1)

RECURSIVE ScanDigits(_, _)
\* first index at or after i that holds no digit
ScanDigits(s, i) == IF i <= Len(s) /\ s[i] \in DigitSet THEN ScanDigits(s, i + 1) ELSE i

RECURSIVE DigitsToNat(_)
DigitsToNat(ds) ==
    IF Len(ds) = 0 THEN 0
    ELSE 10 * DigitsToNat(SubSeq(ds, 1, Len(ds) - 1)) + DigitVal(ds[Len(ds)])

ParseNumber(s, i) ==
    LET neg == s[i] = "-"
        b == IF neg THEN i + 1 ELSE i
        e == IF b <= Len(s) /\ s[b] = "0" THEN b + 1 ELSE ScanDigits(s, b)
        n == DigitsToNat(SubSeq(s, b, e - 1))
    IN  IF e = b THEN ParseFail
        ELSE ParseOk(Num(IF neg THEN -n ELSE n), e)

RECURSIVE DictSet(_, _, _)
\* d[k] = v on an insertion-ordered dict
DictSet(pairs, k, v) ==
    IF Len(pairs) = 0 THEN <<<<k, v>>>>
    ELSE IF pairs[1][1] = k THEN <<<<k, v>>>> \o Tail(pairs)
    ELSE <<pairs[1]>> \o DictSet(Tail(pairs), k, v)

DictHas(pairs, k) == \E i \in 1..Len(pairs) : pairs[i][1] = k
DictGet(pairs, k) == pairs[CHOOSE i \in 1..Len(pairs) : pairs[i][1] = k][2]

RECURSIVE ParseValue(_, _)
RECURSIVE ParseElems(_, _, _)
RECURSIVE ParseMembers(_, _, _)

ParseValue(s, i) ==
    LET j == SkipWs(s, i)
    IN  IF j > Len(s) THEN ParseFail
        ELSE IF s[j] = "\"" THEN ParseString(s, j)
        ELSE IF s[j] = "[" THEN
            LET k == SkipWs(s, j + 1)
            IN  IF k <= Len(s) /\ s[k] = "]" THEN ParseOk(List(<<>>), k + 1)
                ELSE ParseElems(s, k, <<>>)
        ELSE IF s[j] = "{" THEN
            LET k == SkipWs(s, j + 1)
            IN  IF k <= Len(s) /\ s[k] = "}" THEN ParseOk(Dict(<<>>), k + 1)
                ELSE ParseMembers(s, k, <<>>)
        ELSE IF s[j] \in DigitSet \cup {"-"} THEN ParseNumber(s, j)
        ELSE IF StartsAt(s, j, <<"t", "r", "u", "e">>) THEN ParseOk(Bool(TRUE), j + 4)
        ELSE IF StartsAt(s, j, <<"f", "a", "l", "s", "e">>) THEN ParseOk(Bool(FALSE), j + 5)
        ELSE IF StartsAt(s, j, <<"n", "u", "l", "l">>) THEN ParseOk(None, j + 4)
        ELSE ParseFail

ParseElems(s, i, acc) ==
    LET r == ParseValue(s, i)
    IN  IF ~r.ok THEN ParseFail
        ELSE LET k == SkipWs(s, r.next)
             IN  IF k > Len(s) THEN ParseFail
                 ELSE IF s[k] = "," THEN ParseElems(s, k + 1, Append(acc, r.val))
                 ELSE IF s[k] = "]" THEN ParseOk(List(Append(acc, r.val)), k + 1)
                 ELSE ParseFail

ParseMembers(s, i, acc) ==
    LET j == SkipWs(s, i)
    IN  IF j > Len(s) \/ s[j] # "\"" THEN ParseFail
        ELSE LET key == ParseString(s, j)
             IN  IF ~key.ok THEN ParseFail
                 ELSE LET c == SkipWs(s, key.next)
                      IN  IF c > Len(s) \/ s[c] # ":" THEN ParseFail
                          ELSE LET r == ParseValue(s, c + 1)
                               IN  IF ~r.ok THEN ParseFail
                                   ELSE LET k == SkipWs(s, r.next)
                                            d == DictSet(acc, key.val.s, r.val)
                                        IN  IF k > Len(s) THEN ParseFail
                                            ELSE IF s[k] = "," THEN ParseMembers(s, k + 1, d)
                                            ELSE IF s[k] = "}" THEN ParseOk(Dict(d), k + 1)
                                            ELSE ParseFail

\* json.loads(s): [ok, val]; ok = FALSE stands for the JSONDecodeError
JsonLoads(s) ==
    LET r == ParseValue(s, 1)
    IN  IF r.ok /\ SkipWs(s, r.next) > Len(s) THEN r ELSE ParseFail

RECURSIVE JsonDumps(_)
\* json.dumps(v) with the default separators
JsonDumps(v) ==
    CASE v.t = "str" -> <<"\"">> \o v.s \o <<"\"">>
      [] v.t = "num" -> IntToStr(v.n)
      [] v.t = "bool" -> IF v.b THEN <<"t", "r", "u", "e">> ELSE <<"f", "a", "l", "s", "e">>
      [] v.t = "none" -> <<"n", "u", "l", "l">>
      [] v.t = "nan" -> <<"N", "a", "N">>
      [] v.t = "list" ->
            <<"[">> \o Join([i \in 1..Len(v.items) |-> JsonDumps(v.items[i])], <<",", " ">>)
                    \o <<"]">>
      [] v.t = "dict" ->
            <<"{">> \o Join([i \in 1..Len(v.pairs) |->
                                <<"\"">> \o v.pairs[i][1] \o <<"\"", ":", " ">>
                                         \o JsonDumps(v.pairs[i][2])],
                            <<",", " ">>)
                    \o <<"}">>

RECURSIVE PyRepr(_)
\* repr(v), which str(v) uses for the elements of a list or dict
PyRepr(v) ==
    CASE v.t = "str" -> <<"'">> \o v.s \o <<"'">>
      [] v.t = "num" -> IntToStr(v.n)
      [] v.t = "bool" -> IF v.b THEN <<"T", "r", "u", "e">> ELSE <<"F", "a", "l", "s", "e">>
      [] v.t = "none" -> <<"N", "o", "n", "e">>
      [] v.t = "nan" -> <<"n", "a", "n">>
      [] v.t = "list" ->
            <<"[">> \o Join([i \in 1..Len(v.items) |-> PyRepr(v.items[i])], <<",", " ">>)
                    \o <<"]">>
      [] v.t = "dict" ->
            <<"{">> \o Join([i \in 1..Len(v.pairs) |->
                                <<"'">> \o v.pairs[i][1] \o <<"'", ":", " ">>
                                        \o PyRepr(v.pairs[i][2])],
                            <<",", " ">>)
                    \o <<"}">>

\* str(v)
PyStr(v) == IF v.t = "str" THEN v.s ELSE PyRepr(v)

(***************************************************************************)
(* extract_cert_features                                                   *)
(***************************************************************************)
CertDefault ==
    [certificate_count |-> 0, has_GOTS |-> FALSE, has_OEKO_TEX |-> FALSE,
     has_ISO_14001 |-> FALSE]

\* outcome of a call that ends in an uncaught exception
Raised == [raised |-> TRUE]

T_name == <<"n", "a", "m", "e">>
T_title == <<"t", "i", "t", "l", "e">>
T_GOTS == <<"G", "O", "T", "S">>
T_OEKO == <<"O", "E", "K", "O">>
T_OEKO_TEX == <<"O", "E", "K", "O", "-", "T", "E", "X">>
T_OEKO_TEX2 == <<"O", "E", "K", "O", "_", "T", "E", "X">>
T_ISO == <<"I", "S", "O">>
T_14001 == <<"1", "4", "0", "0", "1">>

\* the certificate name one element of a list contributes (none: <<>>)
ItemCerts(item) ==
    IF item.t = "str" THEN <<item.s>>
    ELSE IF item.t = "dict" THEN
        IF DictHas(item.pairs, T_name) THEN <<PyStr(DictGet(item.pairs, T_name))>>
        ELSE IF DictHas(item.pairs, T_title) THEN <<PyStr(DictGet(item.pairs, T_title))>>
        ELSE <<JsonDumps(item)>>
    ELSE <<>>

\* the certificate name one key of a mapping contributes
PairCerts(pair) ==
    IF pair[2].t = "bool" THEN (IF pair[2].b THEN <<pair[1]>> ELSE <<>>)
    ELSE <<pair[1]>>

RECURSIVE Flatten(_)
Flatten(ss) == IF Len(ss) = 0 THEN <<>> ELSE ss[1] \o Flatten(Tail(ss))

CertsOf(parsed) ==
    IF parsed.t = "list" THEN Flatten([i \in 1..Len(parsed.items) |-> ItemCerts(parsed.items[i])])
    ELSE IF parsed.t = "dict" THEN Flatten([i \in 1..Len(parsed.pairs) |-> PairCerts(parsed.pairs[i])])
    ELSE IF parsed.t = "str" THEN <<parsed.s>>
    ELSE <<>>

CertFeatures(parsed) ==
    LET certs == CertsOf(parsed)
        normalized == [i \in 1..Len(certs) |-> Upper(certs[i])]
        any(P(_)) == \E i \in 1..Len(normalized) : P(normalized[i])
        gots(c) == Contains(c, T_GOTS)
        oeko(c) == Contains(c, T_OEKO) \/ Contains(c, T_OEKO_TEX) \/ Contains(c, T_OEKO_TEX2)
        iso(c) == Contains(c, T_ISO) /\ Contains(c, T_14001)
    IN  [certificate_count |-> Len(normalized),
         has_GOTS |-> any(gots),
         has_OEKO_TEX |-> any(oeko),
         has_ISO_14001 |-> any(iso)]

\* the value of json.loads, an exception let through
LoadedOrRaise(r) == IF r.ok THEN CertFeatures(r.val) ELSE Raised

\* json.loads without the try/except around it
extract_cert_features_uncaught(v) ==
    IF v.t = "none" THEN CertDefault
    ELSE IF v.t = "str" THEN LoadedOrRaise(JsonLoads(v.s))
    ELSE CertFeatures(v)

\* try: parsed = json.loads(...) except Exception: parsed = None
LoadedOrNone(r) == IF r.ok THEN r.val ELSE None

extract_cert_features(v) ==
    IF v.t = "none" THEN CertDefault
    ELSE CertFeatures(IF v.t = "str" THEN LoadedOrNone(JsonLoads(v.s)) ELSE v)

(***************************************************************************)
(* Tables and data frames                                                  *)
(*   table: [cols: set of column names, rows: sequence of cols -> value]   *)
(*   frame: [cols, n, data: column name -> sequence of n values]           *)
(***************************************************************************)
\* pd.DataFrame(rows), one column: a column of numbers and nulls becomes
\* float64, its nulls NaN; any other column keeps its objects (None stays None)
FrameColumn(vals) ==
    IF /\ \A i \in 1..Len(vals) : vals[i].t \in {"num", "none", "nan"}
       /\ \E i \in 1..Len(vals) : vals[i].t = "num"
    THEN [i \in 1..Len(vals) |-> IF vals[i].t = "num" THEN vals[i] ELSE NaN]
    ELSE vals

ToFrame(table) ==
    [cols |-> table.cols,
     n |-> Len(table.rows),
     data |-> [c \in table.cols |->
                  FrameColumn([i \in 1..Len(table.rows) |-> table.rows[i][c]])]]

\* row.get(c) of df.iterrows(): None when the frame has no such column
RowGet(df, i, c) == IF c \in df.cols THEN df.data[c][i] ELSE None

\* text of a number: optional sign, then digits only
StrToNum(s) ==
    LET signed == Len(s) > 0 /\ s[1] \in {"-", "+"}
        ds == IF signed THEN Tail(s) ELSE s
    IN  IF Len(ds) > 0 /\ \A i \in 1..Len(ds) : ds[i] \in DigitSet
        THEN Num(IF signed /\ s[1] = "-" THEN -DigitsToNat(ds) ELSE DigitsToNat(ds))
        ELSE NaN

\* pd.to_numeric(x, errors="coerce") on one value
ToNumeric(v) ==
    CASE v.t = "num" -> v
      [] v.t = "bool" -> Num(IF v.b THEN 1 ELSE 0)
      [] v.t = "str" -> StrToNum(v.s)
      [] OTHER -> NaN

ToNumericSeries(vals) == [i \in 1..Len(vals) |-> ToNumeric(vals[i])]

Zeros(n) == [i \in 1..n |-> Num(0)]

NumsOf(s) == {s[i] : i \in {j \in 1..Len(s) : IsNum(s[j])}}
MinOf(S) == CHOOSE x \in S : \A y \in S : Leq(x, y)
MaxOf(S) == CHOOSE x \in S : \A y \in S : Leq(y, x)

\* a variant that reports a missing value as 0.0
min_max_series_filled(s) ==
    IF NumsOf(s) = {} \/ MinOf(NumsOf(s)) = MaxOf(NumsOf(s)) THEN Zeros(Len(s))
    ELSE [i \in 1..Len(s) |->
            IF IsNum(s[i])
            THEN Div(Sub(s[i], MinOf(NumsOf(s))), Sub(MaxOf(NumsOf(s)), MinOf(NumsOf(s))))
            ELSE Num(0)]

min_max_series(s) ==
    IF \A i \in 1..Len(s) : IsNa(s[i]) THEN Zeros(Len(s))
    ELSE LET mn == MinOf(NumsOf(s))
             mx == MaxOf(NumsOf(s))
         IN  IF mx = mn THEN Zeros(Len(s))
             ELSE [i \in 1..Len(s) |-> Div(Sub(s[i], mn), Sub(mx, mn))]

\* 1 - s
Invert(s) == [i \in 1..Len(s) |-> Sub(Num(1), s[i])]

RECURSIVE SumRat(_)
SumRat(xs) == IF Len(xs) = 0 THEN Num(0) ELSE Add(xs[1], SumRat(Tail(xs)))

Clip(x, lo, hi) == IF Less(x, lo) THEN lo ELSE IF Less(hi, x) THEN hi ELSE x

\* signals: sequence of [col, norm, comp, w]; Composite is the weighted average
\* of the stacked components (missing -> 0.0), scaled to 0..100 and clipped
\* stacked = pd.concat(components, axis=1).fillna(0.0), one series per signal
Stacked(signals) == [k \in 1..Len(signals) |-> FillNa(signals[k].comp, Num(0))]

Composite(signals, n) ==
    LET total == SumRat([k \in 1..Len(signals) |-> signals[k].w])
        stacked == Stacked(signals)
        weighted(i) ==
            Div(SumRat([k \in 1..Len(signals) |-> Mul(stacked[k][i], signals[k].w)]), total)
    IN  [i \in 1..n |-> Clip(Mul(weighted(i), Num(100)), Num(0), Num(100))]

Signal(c, norm, comp, w) == [col |-> c, norm |-> norm, comp |-> comp, w |-> w]

\* the signals of the columns in specs that the frame has, in order;
\* specs: sequence of <<column, weight, inverted, prefilled>>
RECURSIVE ColumnSignals(_, _)
ColumnSignals(df, specs) ==
    IF Len(specs) = 0 THEN <<>>
    ELSE LET c == specs[1][1]
             raw == ToNumericSeries(df.data[c])
             s == min_max_series(IF specs[1][4] THEN FillNa(raw, Num(0)) ELSE raw)
         IN  (IF c \in df.cols
              THEN <<Signal(c, s, IF specs[1][3] THEN Invert(s) ELSE s, specs[1][2])>>
              ELSE <<>>) \o ColumnSignals(df, Tail(specs))

\* df[col].fillna(False).astype(float)
FlagSeries(vals) ==
    [i \in 1..Len(vals) |->
        IF IsNa(vals[i]) THEN Num(0)
        ELSE IF vals[i].t = "bool" THEN Num(IF vals[i].b THEN 1 ELSE 0)
        ELSE ToNumeric(vals[i])]

RECURSIVE FlagSignals(_, _)
FlagSignals(df, specs) ==
    IF Len(specs) = 0 THEN <<>>
    ELSE (IF specs[1][1] \in df.cols
          THEN <<Signal(specs[1][1], FlagSeries(df.data[specs[1][1]]),
                        FlagSeries(df.data[specs[1][1]]), specs[1][2])>>
          ELSE <<>>) \o FlagSignals(df, Tail(specs))

SustainabilitySpecs ==
    << <<"karbon_ayak_izi", Rat(15, 10), TRUE, FALSE>>,
       <<"su_tuketimi", Rat(10, 10), TRUE, FALSE>>,
       <<"atik_miktari", Rat(10, 10), TRUE, FALSE>>,
       <<"geri_donusum_orani", Rat(12, 10), FALSE, FALSE>>,
       <<"certificate_count", Rat(8, 10), FALSE, TRUE>> >>

SustainabilityFlags ==
    << <<"has_GOTS", Rat(6, 10)>>, <<"has_OEKO_TEX", Rat(4, 10)>>,
       <<"has_ISO_14001", Rat(5, 10)>> >>

\* [signals, score]
compute_sustainability_score(df) ==
    LET signals == ColumnSignals(df, SustainabilitySpecs) \o FlagSignals(df, SustainabilityFlags)
    IN  [signals |-> signals, stacked |-> Stacked(signals),
         score |-> IF Len(signals) = 0 THEN Zeros(df.n) ELSE Composite(signals, df.n)]

TahminiGetiriSpecs ==
    << <<"ciro", Rat(20, 10), FALSE, TRUE>>,
       <<"gorunurluk_orani", Rat(15, 10), FALSE, TRUE>>,
       <<"magaza_sayisi", Rat(10, 10), FALSE, TRUE>> >>

SustainabilitySignal(sustainability_score) ==
    LET s == [i \in 1..Len(sustainability_score) |->
                 Div(FillNa(sustainability_score, Num(0))[i], Num(100))]
    IN  Signal("surdurulebilirlik_uyum_puani", s, s, Rat(12, 10))

\* the sustainability score taken as a signal only when it had signals itself
compute_tahmini_getiri_score_present_only(df, sustainability_score) ==
    LET signals == ColumnSignals(df, TahminiGetiriSpecs)
                   \o (IF Len(compute_sustainability_score(df).signals) = 0 THEN <<>>
                       ELSE <<SustainabilitySignal(sustainability_score)>>)
    IN  [signals |-> signals, stacked |-> Stacked(signals),
         score |-> IF Len(signals) = 0 THEN Zeros(df.n) ELSE Composite(signals, df.n)]

compute_tahmini_getiri_score(df, sustainability_score) ==
    LET signals == ColumnSignals(df, TahminiGetiriSpecs)
                   \o <<SustainabilitySignal(sustainability_score)>>
    IN  [signals |-> signals, stacked |-> Stacked(signals), score |-> Composite(signals, df.n)]

\* datetime.utcnow().year and today's day number, at the time of the runs
CurrentYear == 2026
Today == 20760

\* pd.to_datetime(x, errors="coerce") followed by (today - d).days; a Date is
\* a timestamp with a time zone, as utcnow() is, and any other value is NaT
AgeDays(v) == IF v.t = "date" THEN Num(Today - v.days) ELSE NaN

KriterSpecs ==
    << <<"kadin_calisan_sayisi", Rat(9, 10), FALSE, TRUE>>,
       <<"engelli_calisan_sayisi", Rat(9, 10), FALSE, TRUE>>,
       <<"talep_edilen_butce", Rat(6, 10), FALSE, TRUE>> >>

RecencySignals(df) ==
    IF "kurulma_yili" \in df.cols THEN
        LET year == ToNumericSeries(df.data["kurulma_yili"])
            recency == [i \in 1..df.n |-> Sub(Num(CurrentYear), year[i])]
            s == min_max_series(recency)
        IN  <<Signal("kurulma_yili", s, Invert(s), Rat(12, 10))>>
    ELSE IF "kurulma_tarihi" \in df.cols THEN
        LET age_days == [i \in 1..df.n |-> AgeDays(df.data["kurulma_tarihi"][i])]
            s == min_max_series(age_days)
        IN  <<Signal("kurulma_tarihi", s, Invert(s), Rat(12, 10))>>
    ELSE <<>>

compute_kriter_uyumluluk_puani(df) ==
    LET signals == RecencySignals(df) \o ColumnSignals(df, KriterSpecs)
    IN  [signals |-> signals, stacked |-> Stacked(signals),
         score |-> IF Len(signals) = 0 THEN Zeros(df.n) ELSE Composite(signals, df.n)]

(***************************************************************************)
(* train_regressor_and_predict                                             *)
(***************************************************************************)
MIN_LABELED_off_by_one == 5 - 1
MIN_LABELED == 5

LabeledRows(df, target_col) ==
    {i \in 1..df.n : ~IsNa(ToNumeric(df.data[target_col][i]))}

\* a feature cell the imputer cannot take as a float
CellNumeric(v) ==
    \/ v.t \in {"num", "nan", "none", "bool"}
    \/ v.t = "str" /\ IsNum(StrToNum(v.s))

FitRaises(df, feature_cols) ==
    \/ feature_cols = {}
    \/ \E c \in feature_cols : \E i \in 1..df.n : ~CellNumeric(df.data[c][i])

\* fitted: the predictions of the fitted pipeline for all rows.
\* metrics: "none" is the None of the source, "metrics" the metrics dict.
train_regressor_and_predict(df, feature_cols, target_col, fitted) ==
    IF Cardinality(LabeledRows(df, target_col)) < MIN_LABELED
    THEN [raised |-> FALSE, preds |-> [i \in 1..df.n |-> NaN], metrics |-> "none"]
    ELSE IF FitRaises(df, feature_cols)
    THEN [raised |-> TRUE, preds |-> [i \in 1..df.n |-> NaN], metrics |-> "none"]
    ELSE [raised |-> FALSE, preds |-> fitted, metrics |-> "metrics"]

\* the predictions a fitted forest can give: per row a mean of training labels;
\* here one of the labels
FittedChoices(df, target_col) ==
    IF target_col = "" \/ Cardinality(LabeledRows(df, target_col)) < MIN_LABELED
    THEN {[i \in 1..df.n |-> NaN]}
    ELSE [1..df.n -> {ToNumeric(df.data[target_col][i]) : i \in LabeledRows(df, target_col)}]

(***************************************************************************)
(* process_firmalar / process_girisimciler: from the fetched table to      *)
(* out_rows                                                                *)
(***************************************************************************)
RECURSIVE FirstPresent(_, _)
\* next((c for c in candidates if c in cols), None); "" stands for None
FirstPresent(candidates, cols) ==
    IF Len(candidates) = 0 THEN ""
    ELSE IF candidates[1] \in cols THEN candidates[1]
    ELSE FirstPresent(Tail(candidates), cols)

RECURSIVE OrChain(_)
\* a or b or ... : the first truthy operand, else the last one
OrChain(vals) ==
    IF Len(vals) = 1 THEN vals[1]
    ELSE IF Truthy(vals[1]) THEN vals[1]
    ELSE OrChain(Tail(vals))

FirmCandidateFeatures ==
    {"ciro", "karbon_ayak_izi", "su_tuketimi", "atik_miktari", "geri_donusum_orani",
     "kadin_calisan_orani", "engelli_calisan_sayisi", "magaza_sayisi",
     "gorunurluk_orani", "sertifikalar"}
FirmPossibleLabels == <<"gercek_getiri", "isbirligi_getirisi">>
FirmTrainFeatures ==
    {"ciro", "karbon_ayak_izi", "su_tuketimi", "atik_miktari", "geri_donusum_orani",
     "kadin_calisan_orani", "engelli_calisan_sayisi", "magaza_sayisi",
     "gorunurluk_orani", "certificate_count", "has_GOTS", "has_OEKO_TEX",
     "has_ISO_14001"}

GirCandidateFeatures ==
    {"kurulma_yili", "kurulma_tarihi", "kadin_calisan_sayisi", "engelli_calisan_sayisi",
     "talep_edilen_butce"}
GirPossibleLabels == <<"gercek_uyum_puani", "basari_puani">>
GirTrainFeatures ==
    {"kurulma_yili", "kadin_calisan_sayisi", "engelli_calisan_sayisi", "talep_edilen_butce"}

CertColumns == {"certificate_count", "has_GOTS", "has_OEKO_TEX", "has_ISO_14001"}

\* one column of cert_parsed = df["sertifikalar"].apply(...).apply(pd.Series)
CertColumn(c, feats) ==
    CASE c = "certificate_count" -> [i \in 1..Len(feats) |-> Num(feats[i].certificate_count)]
      [] c = "has_GOTS" -> [i \in 1..Len(feats) |-> Bool(feats[i].has_GOTS)]
      [] c = "has_OEKO_TEX" -> [i \in 1..Len(feats) |-> Bool(feats[i].has_OEKO_TEX)]
      [] c = "has_ISO_14001" -> [i \in 1..Len(feats) |-> Bool(feats[i].has_ISO_14001)]

ConcatCert(df, feats) ==
    [cols |-> df.cols \cup CertColumns,
     n |-> df.n,
     data |-> [c \in df.cols \cup CertColumns |->
                  IF c \in CertColumns THEN CertColumn(c, feats) ELSE df.data[c]]]

\* df = pd.concat([df, cert_parsed], axis=1)
WithCertFeatures(df) ==
    IF "sertifikalar" \notin df.cols THEN df
    ELSE ConcatCert(df, [i \in 1..df.n |-> extract_cert_features(df.data["sertifikalar"][i])])

\* None if pd.isna(x) else float(x)
FloatOrNone(x) == IF IsNa(x) THEN None ELSE x

\* the result of the trainer when no label column exists and it is not called
NotTrained == [raised |-> FALSE, preds |-> <<>>, metrics |-> "none"]

\* the score column from the trainer's result t and the deterministic scorer's
\* record d, which is computed only when t has no metrics (lines 470-478);
\* scorer: d when the deterministic scorer was called
ScoreColumn(t, label_col, d) ==
    IF label_col # "" /\ t.metrics # "none"
    THEN [raised |-> FALSE, metrics |-> t.metrics, score |-> t.preds, scorer |-> <<>>]
    ELSE [raised |-> t.raised, metrics |-> "none", score |-> d.score, scorer |-> <<d>>]

\* df["tahmini_getiri"], lines 460-478
FirmScoreColumn(df, label_col, sustainability_score, fitted) ==
    ScoreColumn(IF label_col # ""
                THEN train_regressor_and_predict(df, FirmTrainFeatures \cap df.cols, label_col, fitted)
                ELSE NotTrained,
                label_col,
                compute_tahmini_getiri_score(df, sustainability_score))

\* firma_id = row.get("id") or row.get("firma_id") or row.get("pk") or None
FirmaKey(df, i) ==
    OrChain(<<RowGet(df, i, "id"), RowGet(df, i, "firma_id"), RowGet(df, i, "pk"), None>>)

RECURSIVE FirmOutRows(_, _, _, _, _)
\* the loop of lines 482-494, from row i on
FirmOutRows(df, tahmini, sust, now_iso, i) ==
    IF i > df.n THEN <<>>
    ELSE (IF FirmaKey(df, i).t = "none" THEN <<>>
          ELSE <<[firma_id |-> FirmaKey(df, i),
                  tahmini_getiri |-> FloatOrNone(tahmini[i]),
                  surdurulebilirlik_uyum_puani |-> FloatOrNone(sust[i]),
                  olusturulma_tarihi |-> now_iso]>>)
         \o FirmOutRows(df, tahmini, sust, now_iso, i + 1)

FirmStageOf(df, label_col, sust, col, now_iso) ==
    [raised |-> col.raised,
     metrics |-> col.metrics,
     label_col |-> label_col,
     scorers |-> <<sust>> \o col.scorer,
     out_rows |-> IF col.raised THEN <<>>
                  ELSE FirmOutRows(df, col.score, sust.score, now_iso, 1)]

FirmStageOn(df, label_col, sust, fitted, now_iso) ==
    FirmStageOf(df, label_col, sust, FirmScoreColumn(df, label_col, sust.score, fitted), now_iso)

FirmLabel(cols) == FirstPresent(FirmPossibleLabels, cols)

FirmStageIn(df, label_col, fitted, now_iso) ==
    FirmStageOn(df, label_col, compute_sustainability_score(df), fitted, now_iso)

\* process_firmalar from the DataFrame to out_rows (lines 450-494):
\* [raised, metrics, label_col, scorers, out_rows]
FirmStage(table, fitted, now_iso) ==
    FirmStageIn(WithCertFeatures(ToFrame(table)), FirmLabel(table.cols), fitted, now_iso)

\* df["kriter_uyumluluk_puani"], lines 547-557
GirScoreColumn(df, label_col, fitted) ==
    ScoreColumn(IF label_col # ""
                THEN train_regressor_and_predict(df, GirTrainFeatures \cap df.cols, label_col, fitted)
                ELSE NotTrained,
                label_col,
                compute_kriter_uyumluluk_puani(df))

\* gid = row.get("id") or row.get("girisimci_id") or None
GirisimciKey(df, i) ==
    OrChain(<<RowGet(df, i, "id"), RowGet(df, i, "girisimci_id"), None>>)

RECURSIVE GirOutRows(_, _, _, _)
\* the loop of lines 561-572, from row i on
GirOutRows(df, kriter, now_iso, i) ==
    IF i > df.n THEN <<>>
    ELSE (IF GirisimciKey(df, i).t = "none" THEN <<>>
          ELSE <<[girisimci_id |-> GirisimciKey(df, i),
                  kriter_uyumluluk_puani |-> FloatOrNone(kriter[i]),
                  gerceklesme_tarihi |-> now_iso]>>)
         \o GirOutRows(df, kriter, now_iso, i + 1)

GirStageOf(df, label_col, col, now_iso) ==
    [raised |-> col.raised,
     metrics |-> col.metrics,
     label_col |-> label_col,
     scorers |-> col.scorer,
     out_rows |-> IF col.raised THEN <<>> ELSE GirOutRows(df, col.score, now_iso, 1)]

GirLabel(cols) == FirstPresent(GirPossibleLabels, cols)

GirStageIn(df, label_col, fitted, now_iso) ==
    GirStageOf(df, label_col, GirScoreColumn(df, label_col, fitted), now_iso)

\* process_girisimciler from the DataFrame to out_rows (lines 545-572)
GirStage(table, fitted, now_iso) ==
    GirStageIn(ToFrame(table), GirLabel(table.cols), fitted, now_iso)

(***************************************************************************)
(* The run: main, process_firmalar, process_girisimciler                   *)
(***************************************************************************)
Procs == {1, 2}

MaxRuns == 2
MaxUnreadable == 1

tables_to_check_sources_only == {"firmalar", "girisimciler"}
tables_to_check == {"firmalar", "girisimciler", "firma_tahminleme", "girisimci_tahminleme"}

AllTables == {"firmalar", "girisimciler", "firma_tahminleme", "girisimci_tahminleme"}

can_read_table(p, table) == table \notin unreadable[p]

\* missing = [t for t in tables_to_check if not can_read_table(supabase, t)]
MissingTables(p) == {t \in tables_to_check : ~can_read_table(p, t)}

Active(p) == pc[p] \notin {"idle", "exited"}

\* sys.exit(code), or the interpreter ending on an uncaught exception (status 1)
Exit(p, code) ==
    /\ pc' = [pc EXCEPT ![p] = "exited"]
    /\ exitCode' = [exitCode EXCEPT ![p] = code]
    /\ exits' = Append(exits, code)

\* a failed delete or insert handled by logging only
AfterFailedWrite_continue(here) == here
\* except Exception: logger.error(...); sys.exit(1)
AfterFailedWrite(here) == "exited"

FailWrite(p) ==
    /\ pc' = [pc EXCEPT ![p] = AfterFailedWrite(pc[p])]
    /\ IF AfterFailedWrite(pc[p]) = "exited"
       THEN /\ exitCode' = [exitCode EXCEPT ![p] = 1]
            /\ exits' = Append(exits, 1)
       ELSE UNCHANGED <<exitCode, exits>>

Call(op, table, keys, ok) == [op |-> op, table |-> table, keys |-> keys, ok |-> ok]

\* a delete that removes nothing
DeleteWhere_nothing(store, key_col, key) == store
\* supabase.table(t).delete().eq(key_col, key).execute() on the store
DeleteWhere(store, key_col, key) ==
    LET Keep(r) == r[key_col] # key IN SelectSeq(store, Keep)

\* the outcomes of insert(rows).execute(): it may fail for any reason, and it
\* fails when a key is NaN, which is no JSON number
InsertOutcomes(keys) ==
    IF \E i \in 1..Len(keys) : keys[i].t = "nan" THEN {FALSE} ELSE BOOLEAN

\* the ids of all but the last row
FirmaIds_but_last(rows) == [i \in 1..(Len(rows) - 1) |-> rows[i].firma_id]
\* firma_ids = [r["firma_id"] for r in out_rows]
FirmaIds(rows) == [i \in 1..Len(rows) |-> rows[i].firma_id]
\* girisimci_ids = [r["girisimci_id"] for r in out_rows]
GirisimciIds(rows) == [i \in 1..Len(rows) |-> rows[i].girisimci_id]

\* python ml/train_and_predict.py, while no other run is in progress
StartRun(p) ==
    /\ ~Active(p)
    /\ \A q \in Procs : ~Active(q)
    /\ clock < MaxRuns
    /\ clock' = clock + 1
    /\ \E u \in {v \in SUBSET AllTables : Cardinality(v) <= MaxUnreadable} :
          unreadable' = [unreadable EXCEPT ![p] = u]
    /\ pc' = [pc EXCEPT ![p] = "main"]
    /\ exitCode' = [exitCode EXCEPT ![p] = -1]
    /\ out_rows' = [out_rows EXCEPT ![p] = <<>>]
    /\ delIdx' = [delIdx EXCEPT ![p] = 0]
    /\ metricsOf' = [metricsOf EXCEPT ![p] = [firma |-> "unset", girisimci |-> "unset"]]
    /\ calls' = [calls EXCEPT ![p] = <<>>]
    /\ UNCHANGED <<firmalar, girisimciler, firma_tahminleme, girisimci_tahminleme, exits>>

\* a main() that calls process_girisimciler first
Main_entrepreneurs_first(p) ==
    /\ pc[p] = "main"
    /\ \E env_ok \in BOOLEAN :
          IF ~env_ok \/ MissingTables(p) # {}
          THEN Exit(p, 1)
          ELSE /\ pc' = [pc EXCEPT ![p] = "gir_build"]
               /\ UNCHANGED <<exitCode, exits>>
    /\ UNCHANGED <<firmalar, girisimciler, firma_tahminleme, girisimci_tahminleme,
                   unreadable, out_rows, delIdx, metricsOf, calls, clock>>

\* main() up to the call of process_firmalar (lines 587-597)
Main(p) ==
    /\ pc[p] = "main"
    /\ \E env_ok \in BOOLEAN :
          IF ~env_ok \/ MissingTables(p) # {}
          THEN Exit(p, 1)
          ELSE /\ pc' = [pc EXCEPT ![p] = "firm_build"]
               /\ UNCHANGED <<exitCode, exits>>
    /\ UNCHANGED <<firmalar, girisimciler, firma_tahminleme, girisimci_tahminleme,
                   unreadable, out_rows, delIdx, metricsOf, calls, clock>>

\* process_firmalar up to the first delete, given the outcome of its reads
\* (failed: a probe or a select failed) and of its scoring stage st
FirmBuilt(p, failed, st) ==
    IF \/ failed
       \/ Len(firmalar.rows) = 0
       \/ FirmCandidateFeatures \cap firmalar.cols = {}
       \/ st.raised
    THEN /\ Exit(p, 1)
         /\ UNCHANGED <<out_rows, delIdx, metricsOf>>
    ELSE /\ out_rows' = [out_rows EXCEPT ![p] = st.out_rows]
         /\ metricsOf' = [metricsOf EXCEPT ![p].firma = st.metrics]
         /\ delIdx' = [delIdx EXCEPT ![p] = 1]
         /\ pc' = [pc EXCEPT ![p] = IF Len(FirmaIds(st.out_rows)) = 0
                                    THEN "gir_build" ELSE "firm_delete"]
         /\ UNCHANGED <<exitCode, exits>>

\* process_firmalar up to the first delete (lines 409-497)
FirmBuild(p) ==
    /\ pc[p] = "firm_build"
    /\ \E io_ok \in BOOLEAN :
       \E fitted \in FittedChoices(ToFrame(firmalar), FirmLabel(firmalar.cols)) :
          FirmBuilt(p,
                    \/ ~io_ok
                    \/ ~can_read_table(p, "firmalar")
                    \/ ~can_read_table(p, "firma_tahminleme"),
                    FirmStage(firmalar, fitted, clock))
    /\ UNCHANGED <<firmalar, girisimciler, firma_tahminleme, girisimci_tahminleme,
                   unreadable, calls, clock>>

\* one iteration of delete_existing_predictions_for_firm (lines 370-376)
FirmDelete(p) ==
    /\ pc[p] = "firm_delete"
    /\ LET ids == FirmaIds(out_rows[p])
       IN  IF delIdx[p] > Len(ids)
           THEN /\ pc' = [pc EXCEPT ![p] = "firm_insert"]
                /\ UNCHANGED <<firma_tahminleme, calls, delIdx, exitCode, exits>>
           ELSE \E ok \in BOOLEAN :
                  /\ calls' = [calls EXCEPT ![p] =
                                  Append(@, Call("delete", "firma_tahminleme", <<ids[delIdx[p]]>>, ok))]
                  /\ IF ok
                     THEN /\ firma_tahminleme' = DeleteWhere(firma_tahminleme, "firma_id", ids[delIdx[p]])
                          /\ delIdx' = [delIdx EXCEPT ![p] = @ + 1]
                          /\ UNCHANGED <<pc, exitCode, exits>>
                     ELSE /\ FailWrite(p)
                          /\ UNCHANGED <<firma_tahminleme, delIdx>>
    /\ UNCHANGED <<firmalar, girisimciler, girisimci_tahminleme, unreadable, out_rows,
                   metricsOf, clock>>

\* insert_firma_predictions (lines 379-386)
FirmInsert(p) ==
    /\ pc[p] = "firm_insert"
    /\ \E ok \in InsertOutcomes(FirmaIds(out_rows[p])) :
          /\ calls' = [calls EXCEPT ![p] =
                          Append(@, Call("insert", "firma_tahminleme",
                                         [i \in 1..Len(out_rows[p]) |-> out_rows[p][i].firma_id], ok))]
          /\ IF ok
             THEN /\ firma_tahminleme' = firma_tahminleme \o out_rows[p]
                  /\ pc' = [pc EXCEPT ![p] = "gir_build"]
                  /\ UNCHANGED <<exitCode, exits>>
             ELSE /\ FailWrite(p)
                  /\ UNCHANGED firma_tahminleme
    /\ UNCHANGED <<firmalar, girisimciler, girisimci_tahminleme, unreadable, out_rows,
                   delIdx, metricsOf, clock>>

\* process_girisimciler up to the first delete, given the outcome of its reads
\* and of its scoring stage st
GirBuilt(p, failed, st) ==
    IF \/ failed
       \/ Len(girisimciler.rows) = 0
       \/ GirCandidateFeatures \cap girisimciler.cols = {}
       \/ st.raised
    THEN /\ Exit(p, 1)
         /\ UNCHANGED <<out_rows, delIdx, metricsOf>>
    ELSE /\ out_rows' = [out_rows EXCEPT ![p] = st.out_rows]
         /\ metricsOf' = [metricsOf EXCEPT ![p].girisimci = st.metrics]
         /\ delIdx' = [delIdx EXCEPT ![p] = 1]
         /\ IF Len(GirisimciIds(st.out_rows)) = 0
            THEN Exit(p, 0)
            ELSE /\ pc' = [pc EXCEPT ![p] = "gir_delete"]
                 /\ UNCHANGED <<exitCode, exits>>

\* process_girisimciler up to the first delete (lines 509-575)
GirBuild(p) ==
    /\ pc[p] = "gir_build"
    /\ \E io_ok \in BOOLEAN :
       \E fitted \in FittedChoices(ToFrame(girisimciler), GirLabel(girisimciler.cols)) :
          GirBuilt(p,
                   \/ ~io_ok
                   \/ ~can_read_table(p, "girisimciler")
                   \/ ~can_read_table(p, "girisimci_tahminleme"),
                   GirStage(girisimciler, fitted, clock))
    /\ UNCHANGED <<firmalar, girisimciler, firma_tahminleme, girisimci_tahminleme,
                   unreadable, calls, clock>>

\* one iteration of delete_existing_predictions_for_girisimci (lines 389-395)
GirDelete(p) ==
    /\ pc[p] = "gir_delete"
    /\ LET ids == GirisimciIds(out_rows[p])
       IN  IF delIdx[p] > Len(ids)
           THEN /\ pc' = [pc EXCEPT ![p] = "gir_insert"]
                /\ UNCHANGED <<girisimci_tahminleme, calls, delIdx, exitCode, exits>>
           ELSE \E ok \in BOOLEAN :
                  /\ calls' = [calls EXCEPT ![p] =
                                  Append(@, Call("delete", "girisimci_tahminleme", <<ids[delIdx[p]]>>, ok))]
                  /\ IF ok
                     THEN /\ girisimci_tahminleme' =
                                DeleteWhere(girisimci_tahminleme, "girisimci_id", ids[delIdx[p]])
                          /\ delIdx' = [delIdx EXCEPT ![p] = @ + 1]
                          /\ UNCHANGED <<pc, exitCode, exits>>
                     ELSE /\ FailWrite(p)
                          /\ UNCHANGED <<girisimci_tahminleme, delIdx>>
    /\ UNCHANGED <<firmalar, girisimciler, firma_tahminleme, unreadable, out_rows,
                   metricsOf, clock>>

\* insert_girisimci_predictions (lines 398-405), then the end of main
GirInsert(p) ==
    /\ pc[p] = "gir_insert"
    /\ \E ok \in InsertOutcomes(GirisimciIds(out_rows[p])) :
          /\ calls' = [calls EXCEPT ![p] =
                          Append(@, Call("insert", "girisimci_tahminleme",
                                         [i \in 1..Len(out_rows[p]) |-> out_rows[p][i].girisimci_id], ok))]
          /\ IF ok
             THEN /\ girisimci_tahminleme' = girisimci_tahminleme \o out_rows[p]
                  /\ Exit(p, 0)
             ELSE /\ FailWrite(p)
                  /\ UNCHANGED girisimci_tahminleme
    /\ UNCHANGED <<firmalar, girisimciler, firma_tahminleme, unreadable, out_rows,
                   delIdx, metricsOf, clock>>

(***************************************************************************)
(* Inputs of the run: the contents of the two source tables                *)
(***************************************************************************)
MaxRows == 2

SeqsUpTo(S, n) == UNION {[1..k -> S] : k \in 0..n}

Table(cols, rows) == [cols |-> cols, rows |-> rows]

\* the id column of a source table holds no value twice
UniqueIds(rows) ==
    \A i, j \in 1..Len(rows) : (i # j /\ rows[i].id = rows[j].id) => rows[i].id = None

TablesOf(cols, RowSet, n) ==
    {Table(cols, rows) : rows \in {r \in SeqsUpTo(RowSet, n) : "id" \in cols => UniqueIds(r)}}

\* 6 firms, no label column, ciro = 10..60, no other candidate column
ScenarioFirmalar ==
    Table({"id", "ciro"}, [i \in 1..6 |-> [id |-> Num(i), ciro |-> Num(10 * i)]])

\* 5 firms with a label each: the trainer fits
LabelledFirmalar ==
    Table({"id", "ciro", "gercek_getiri"},
          [i \in 1..5 |-> [id |-> Num(i), ciro |-> Num(10 * i),
                           gercek_getiri |-> Num(5)]])

FirmTables ==
    TablesOf({"id", "firma_id", "ciro"},
             [id : {None, Num(0), Num(1), Num(2)}, firma_id : {None, Num(1)}, ciro : {Num(10)}],
             MaxRows)
    \cup TablesOf({"firma_id", "pk", "ciro"},
                  [firma_id : {None, Num(1)}, pk : {None, Num(2)}, ciro : {Num(10)}], MaxRows)
    \cup TablesOf({"id", "ciro", "gercek_getiri"},
                  [id : {Num(1), Num(2)}, ciro : {Num(10), None}, gercek_getiri : {Num(5)}],
                  MaxRows)
    \cup TablesOf({"pk", "ad"}, [pk : {Num(1)}, ad : {Str(<<"x">>)}], 1)
    \cup {ScenarioFirmalar, LabelledFirmalar}

GirTables ==
    TablesOf({"id", "girisimci_id", "kurulma_yili"},
             [id : {None, Num(0), Num(1)}, girisimci_id : {None, Num(1)},
              kurulma_yili : {Num(2020)}],
             MaxRows)
    \cup TablesOf({"id", "kadin_calisan_sayisi", "basari_puani"},
                  [id : {Num(1), Num(2)}, kadin_calisan_sayisi : {Num(3), None},
                   basari_puani : {Num(7)}],
                  MaxRows)
    \cup TablesOf({"id", "ad"}, [id : {Num(1)}, ad : {Str(<<"x">>)}], 1)
    \cup {Table({"id", "talep_edilen_butce", "gercek_uyum_puani"},
                [i \in 1..5 |-> [id |-> Num(i), talep_edilen_butce |-> Num(100 * i),
                                 gercek_uyum_puani |-> Num(60)]])}

DefaultFirmalar == Table({"id", "ciro"}, <<[id |-> Num(1), ciro |-> Num(10)]>>)
DefaultGirisimciler ==
    Table({"id", "kurulma_yili"}, <<[id |-> Num(1), kurulma_yili |-> Num(2020)]>>)

InitRun ==
    /\ \/ firmalar \in FirmTables /\ girisimciler = DefaultGirisimciler
       \/ firmalar = DefaultFirmalar /\ girisimciler \in GirTables
    /\ firma_tahminleme = <<>>
    /\ girisimci_tahminleme = <<>>
    /\ unreadable = [p \in Procs |-> {}]
    /\ pc = [p \in Procs |-> "idle"]
    /\ exitCode = [p \in Procs |-> -1]
    /\ out_rows = [p \in Procs |-> <<>>]
    /\ delIdx = [p \in Procs |-> 0]
    /\ metricsOf = [p \in Procs |-> [firma |-> "unset", girisimci |-> "unset"]]
    /\ calls = [p \in Procs |-> <<>>]
    /\ clock = 0
    /\ exits = <<>>
    /\ log = <<>>

\* no run at all: the state the harnesses below keep the run in
NoRun ==
    /\ firmalar = DefaultFirmalar
    /\ girisimciler = DefaultGirisimciler
    /\ firma_tahminleme = <<>>
    /\ girisimci_tahminleme = <<>>
    /\ unreadable = [p \in Procs |-> {}]
    /\ pc = [p \in Procs |-> "idle"]
    /\ exitCode = [p \in Procs |-> -1]
    /\ out_rows = [p \in Procs |-> <<>>]
    /\ delIdx = [p \in Procs |-> 0]
    /\ metricsOf = [p \in Procs |-> [firma |-> "unset", girisimci |-> "unset"]]
    /\ calls = [p \in Procs |-> <<>>]
    /\ clock = 0
    /\ exits = <<>>
    /\ log = <<>>

NoScore == scoreIn = <<>> /\ scoreOut = <<>>
NoCert == certIn = <<>> /\ certOut = <<>>

Init == InitRun /\ NoScore /\ NoCert

\* the steps of the runs that the processes of P make
RunNext(P) ==
    \E p \in P :
        \/ StartRun(p) /\ UNCHANGED <<logVars, scoreVars, certVars>>
        \/ Main(p) /\ UNCHANGED <<logVars, scoreVars, certVars>>
        \/ FirmBuild(p) /\ UNCHANGED <<logVars, scoreVars, certVars>>
        \/ FirmDelete(p) /\ UNCHANGED <<logVars, scoreVars, certVars>>
        \/ FirmInsert(p) /\ UNCHANGED <<logVars, scoreVars, certVars>>
        \/ GirBuild(p) /\ UNCHANGED <<logVars, scoreVars, certVars>>
        \/ GirDelete(p) /\ UNCHANGED <<logVars, scoreVars, certVars>>
        \/ GirInsert(p) /\ UNCHANGED <<logVars, scoreVars, certVars>>

\* one process: runs one at a time, as the program is meant to be used
Next == RunNext({1})

Spec == Init /\ [][Next]_vars

(***************************************************************************)
(* Two runs at once: nothing in the program locks the prediction tables,   *)
(* so the calls of two runs reach the store in any order                   *)
(***************************************************************************)
\* both runs read the same source rows, so their entity ids overlap
ConcurrentFirmalar ==
    {DefaultFirmalar,
     Table({"id", "ciro"}, <<[id |-> Num(1), ciro |-> Num(10)],
                             [id |-> Num(2), ciro |-> Num(20)]>>)}

InitConcurrent ==
    /\ firmalar \in ConcurrentFirmalar
    /\ girisimciler = DefaultGirisimciler
    /\ firma_tahminleme = <<>>
    /\ girisimci_tahminleme = <<>>
    /\ unreadable = [p \in Procs |-> {}]
    /\ pc = [p \in Procs |-> "idle"]
    /\ exitCode = [p \in Procs |-> -1]
    /\ out_rows = [p \in Procs |-> <<>>]
    /\ delIdx = [p \in Procs |-> 0]
    /\ metricsOf = [p \in Procs |-> [firma |-> "unset", girisimci |-> "unset"]]
    /\ calls = [p \in Procs |-> <<>>]
    /\ clock = 0
    /\ exits = <<>>
    /\ log = <<>>
    /\ NoScore
    /\ NoCert

\* python ml/train_and_predict.py, whatever the other process is doing
StartConcurrentRun(p) ==
    /\ pc[p] = "idle"
    /\ clock < MaxRuns
    /\ clock' = clock + 1
    /\ \E u \in {v \in SUBSET AllTables : Cardinality(v) <= MaxUnreadable} :
          unreadable' = [unreadable EXCEPT ![p] = u]
    /\ pc' = [pc EXCEPT ![p] = "main"]
    /\ UNCHANGED <<firmalar, girisimciler, firma_tahminleme, girisimci_tahminleme,
                   exitCode, out_rows, delIdx, metricsOf, calls, exits>>

\* the store serves the call that p has just issued, if it issued one
Served(p) ==
    log' = IF calls'[p] = calls[p]
           THEN log
           ELSE Append(log, [proc |-> p, call |-> calls'[p][Len(calls'[p])]])

NextConcurrent ==
    \E p \in Procs :
        \/ StartConcurrentRun(p) /\ UNCHANGED <<logVars, scoreVars, certVars>>
        \/ Main(p) /\ UNCHANGED <<logVars, scoreVars, certVars>>
        \/ FirmBuild(p) /\ UNCHANGED <<logVars, scoreVars, certVars>>
        \/ FirmDelete(p) /\ Served(p) /\ UNCHANGED <<scoreVars, certVars>>
        \/ FirmInsert(p) /\ Served(p) /\ UNCHANGED <<scoreVars, certVars>>
        \/ GirBuild(p) /\ UNCHANGED <<logVars, scoreVars, certVars>>
        \/ GirDelete(p) /\ Served(p) /\ UNCHANGED <<scoreVars, certVars>>
        \/ GirInsert(p) /\ Served(p) /\ UNCHANGED <<scoreVars, certVars>>

SpecConcurrent == InitConcurrent /\ [][NextConcurrent]_vars

(***************************************************************************)
(* The scoring stage alone, over families of source tables                 *)
(***************************************************************************)
MaxScoreRows == 3
MaxLabelRows == 5

\* the tables of 1..n rows with ids 1, 2, ... and one more column c
ColumnTables(c, Vals, n) ==
    {Table({"id", c},
           [i \in 1..Len(f) |-> [x \in {"id", c} |-> IF x = "id" THEN Num(i) ELSE f[i]]]) :
        f \in UNION {[1..m -> Vals] : m \in 1..n}}

SignalValues == {None, Str(<<"x">>), Num(-10), Num(10), Num(20)}
YearValues == {None, Str(<<"x">>), Num(2000), Num(2010), Num(2020)}
DateValues == {None, Str(<<"x">>), Date(10000), Date(20000), Date(20500)}

FirmSignalColumns ==
    {"karbon_ayak_izi", "su_tuketimi", "atik_miktari", "geri_donusum_orani",
     "ciro", "gorunurluk_orani", "magaza_sayisi"}
GirSignalColumns == {"kadin_calisan_sayisi", "engelli_calisan_sayisi", "talep_edilen_butce"}

\* tables of n rows with ids 1..n, a feature and a label column
LabelTables(feature, label, Labels, n) ==
    {Table({"id", feature, label},
           [i \in 1..n |-> [x \in {"id", feature, label} |->
                               IF x = "id" THEN Num(i)
                               ELSE IF x = feature THEN Num(10 * i)
                               ELSE f[i]]]) :
        f \in [1..n -> Labels]}

FirmLabelValues == {None, Str(<<"x">>), Str(<<"5">>), Num(5)}
GirLabelValues == {None, Num(60)}

CertCells ==
    {None, List(<<Str(T_GOTS)>>), Str(<<"G", "O", "T", "S">>),
     Str(<<"{", "\"", "I", "S", "O", " ", "1", "4", "0", "0", "1", "\"", ":",
           " ", "t", "r", "u", "e", "}">>)}

\* firm tables of at most n rows, or of at most m rows when labelled
FirmScoreTables(n, m) ==
    UNION {ColumnTables(c, SignalValues, n) : c \in FirmSignalColumns}
    \cup (TablesOf({"pk", "ciro", "karbon_ayak_izi"},
                   [pk : {Num(1)}, ciro : {None, Num(10), Num(20)},
                    karbon_ayak_izi : {None, Num(10), Num(20)}],
                   n) \ {Table({"pk", "ciro", "karbon_ayak_izi"}, <<>>)})
    \cup (TablesOf({"pk", "sertifikalar", "ciro"},
                   [pk : {Num(1)}, sertifikalar : CertCells, ciro : {Num(10), Num(20)}],
                   2) \ {Table({"pk", "sertifikalar", "ciro"}, <<>>)})
    \cup UNION {LabelTables("ciro", "gercek_getiri", FirmLabelValues, k) :
                   k \in (MIN_LABELED - 1)..m}
    \cup {ScenarioFirmalar}

GirScoreTables(n, m) ==
    UNION {ColumnTables(c, SignalValues, n) : c \in GirSignalColumns}
    \cup ColumnTables("kurulma_yili", YearValues, n)
    \cup {t \in ColumnTables("kurulma_tarihi", DateValues, n) :
              \E i \in 1..Len(t.rows) : t.rows[i].kurulma_tarihi.t = "date"}
    \cup UNION {LabelTables("talep_edilen_butce", "gercek_uyum_puani", GirLabelValues, k) :
                   k \in (MIN_LABELED - 1)..m}

ScoreInputs(n, m) ==
    {[kind |-> "firmalar", table |-> t] : t \in FirmScoreTables(n, m)}
    \cup {[kind |-> "girisimciler", table |-> t] : t \in GirScoreTables(n, m)}

InitScore ==
    /\ NoRun
    /\ NoCert
    /\ scoreIn \in ScoreInputs(MaxScoreRows, MaxLabelRows)
    /\ scoreOut = <<>>

\* process_firmalar from df = pd.DataFrame(rows) to the end of the out_rows loop
ScoreFirmalar ==
    /\ scoreIn.kind = "firmalar"
    /\ scoreOut = <<>>
    /\ \E fitted \in FittedChoices(ToFrame(scoreIn.table), FirmLabel(scoreIn.table.cols)) :
          scoreOut' = <<FirmStage(scoreIn.table, fitted, clock)>>
    /\ UNCHANGED scoreIn

\* process_girisimciler from df = pd.DataFrame(rows) to the end of the out_rows loop
ScoreGirisimciler ==
    /\ scoreIn.kind = "girisimciler"
    /\ scoreOut = <<>>
    /\ \E fitted \in FittedChoices(ToFrame(scoreIn.table), GirLabel(scoreIn.table.cols)) :
          scoreOut' = <<GirStage(scoreIn.table, fitted, clock)>>
    /\ UNCHANGED scoreIn

NextScore ==
    \/ ScoreFirmalar /\ UNCHANGED <<runVars, logVars, certVars>>
    \/ ScoreGirisimciler /\ UNCHANGED <<runVars, logVars, certVars>>

SpecScore == InitScore /\ [][NextScore]_vars

(***************************************************************************)
(* extract_cert_features alone, over raw sertifikalar values               *)
(***************************************************************************)
MaxCerts == 2

CertNames ==
    {T_GOTS, <<"g", "o", "t", "s">>,
     <<"O", "E", "K", "O", "-", "T", "E", "X", " ", "c", "e", "r", "t">>,
     <<"o", "e", "k", "o", "_", "t", "e", "x">>,
     <<"I", "S", "O", " ", "1", "4", "0", "0", "1">>,
     <<"i", "s", "o", "9", "0", "0", "1">>,
     <<"x">>}

CertScalars == {None, NaN, Num(14001), Bool(TRUE), Bool(FALSE)}

\* what a list of certificates may hold
CertItems ==
    {Str(n) : n \in CertNames}
    \cup {Dict(<<<<T_name, Str(T_GOTS)>>>>),
          Dict(<<<<T_name, Num(14001)>>>>),
          Dict(<<<<T_title, Str(<<"o", "e", "k", "o">>)>>, <<T_name, None>>>>),
          Dict(<<<<T_title, Str(<<"I", "S", "O", "-", "1", "4", "0", "0", "1">>)>>>>),
          Dict(<<<<<<"i", "d">>, Str(<<"g", "o", "t", "s">>)>>>>),
          List(<<Str(T_GOTS)>>),
          None, Num(1), Bool(TRUE)}

\* lists of at most n items
CertLists(n) == {List(items) : items \in SeqsUpTo(CertItems, n)}

CertKeys ==
    {T_GOTS, <<"o", "e", "k", "o", "_", "t", "e", "x">>,
     <<"I", "S", "O", " ", "1", "4", "0", "0", "1">>, <<"x">>}
CertPairValues == {Bool(TRUE), Bool(FALSE), None, Num(0)}

\* mappings of at most n distinct keys
CertDicts(n) ==
    {Dict(pairs) :
        pairs \in {q \in SeqsUpTo(CertKeys \X CertPairValues, n) :
                      \A i, j \in 1..Len(q) : i # j => q[i][1] # q[j][1]}}

\* texts that json.loads rejects
InvalidJsonTexts ==
    {T_GOTS, <<>>, <<"[">>, <<"{">>, <<"[", "\"", "G", "O", "T", "S", "\"">>,
     <<"[", "\"", "G", "O", "T", "S", "\"", ",", "]">>,
     <<"{", "\"", "G", "O", "T", "S", "\"", "}">>,
     <<"{", "G", "O", "T", "S", ":", "t", "r", "u", "e", "}">>,
     <<"'", "G", "O", "T", "S", "'">>,
     <<"\"", "G", "O", "T", "S", "\"", " ", "x">>,
     <<"I", "S", "O", " ", "1", "4", "0", "0", "1">>,
     <<"N", "o", "n", "e">>, <<"-">>, <<"0", "1">>}

\* texts without blanks between the tokens
T_ISO_true ==
    <<"{", "\"", "I", "S", "O", " ", "1", "4", "0", "0", "1", "\"", ":", "t", "r", "u", "e", "}">>
T_GOTS_OEKO ==
    <<"[", "\"", "G", "O", "T", "S", "\"", ",", "\"", "O", "E", "K", "O", "-", "T", "E", "X",
      " ", "c", "e", "r", "t", "\"", "]">>

\* json.dumps of a JSON value (NaN is none)
Serialisable(v) ==
    /\ v.t # "nan"
    /\ v.t = "list" => \A i \in 1..Len(v.items) : v.items[i].t # "nan"

CertTexts(n) ==
    {Str(JsonDumps(v)) :
        v \in {w \in CertLists(n) \cup CertDicts(n) \cup CertScalars
                        \cup {Str(c) : c \in CertNames} :
                  Serialisable(w)}}
    \cup {Str(s) : s \in InvalidJsonTexts}
    \cup {Str(T_ISO_true), Str(T_GOTS_OEKO)}
    \cup {Str(<<" ">> \o JsonDumps(v) \o <<" ">>) : v \in {Str(T_GOTS), List(<<>>), None}}

CertInputs(n) ==
    CertScalars \cup CertLists(n) \cup CertDicts(n) \cup CertTexts(n)

InitCert ==
    /\ NoRun
    /\ NoScore
    /\ certIn \in {<<v>> : v \in CertInputs(MaxCerts)}
    /\ certOut = <<>>

\* one call extract_cert_features(sertifikalar_value)
ExtractCert ==
    /\ certOut = <<>>
    /\ certOut' = <<extract_cert_features(certIn[1])>>
    /\ UNCHANGED certIn

NextCert == ExtractCert /\ UNCHANGED <<runVars, logVars, scoreVars>>

SpecCert == InitCert /\ [][NextCert]_vars

(***************************************************************************)
(* Claims on the run                                                       *)
(***************************************************************************)
RowsWithKey(store, key_col, key) == {i \in 1..Len(store) : store[i][key_col] = key}

KeysOf(store, key_col) == {store[i][key_col] : i \in 1..Len(store)}

\* C1: the upsert invariant. In every state reached by runs made one at a
\* time, each prediction table holds at most one row per entity id.
C1_AtMostOneRowPerId ==
    /\ \A k \in KeysOf(firma_tahminleme, "firma_id") :
          Cardinality(RowsWithKey(firma_tahminleme, "firma_id", k)) <= 1
    /\ \A k \in KeysOf(girisimci_tahminleme, "girisimci_id") :
          Cardinality(RowsWithKey(girisimci_tahminleme, "girisimci_id", k)) <= 1

\* the keys the successful inserts of process p's current run wrote to a table
InsertedKeys(p, table) ==
    UNION {{calls[p][j].keys[i] : i \in 1..Len(calls[p][j].keys)} :
              j \in {m \in 1..Len(calls[p]) :
                        /\ calls[p][m].op = "insert"
                        /\ calls[p][m].table = table
                        /\ calls[p][m].ok}}

\* C2: upsert idempotence. After two successful runs in succession over the
\* same source data, every entity id the second run wrote has exactly one row
\* in the store, and that row carries the second run's timestamp.
C2_SecondRunReplacesFirst ==
    exits = <<0, 0>> =>
        \A p \in Procs :
            /\ \A k \in InsertedKeys(p, "firma_tahminleme") :
                  /\ Cardinality(RowsWithKey(firma_tahminleme, "firma_id", k)) = 1
                  /\ \A i \in RowsWithKey(firma_tahminleme, "firma_id", k) :
                        firma_tahminleme[i].olusturulma_tarihi = clock
            /\ \A k \in InsertedKeys(p, "girisimci_tahminleme") :
                  /\ Cardinality(RowsWithKey(girisimci_tahminleme, "girisimci_id", k)) = 1
                  /\ \A i \in RowsWithKey(girisimci_tahminleme, "girisimci_id", k) :
                        girisimci_tahminleme[i].gerceklesme_tarihi = clock

\* the calls on one table among the first n calls of process p's run
CallsOn(p, table, n) ==
    LET OnTable(c) == c.table = table IN SelectSeq(SubSeq(calls[p], 1, n), OnTable)

\* C3: within one run and one entity type, the calls before the bulk insert
\* are exactly one successful delete per key the insert writes, in the order
\* of the batch, and no delete on that table follows the insert.
C3_DeletesBeforeInsert ==
    \A p \in Procs : \A j \in 1..Len(calls[p]) :
        calls[p][j].op = "insert" =>
            LET before == CallsOn(p, calls[p][j].table, j - 1)
                keys == calls[p][j].keys
            IN  /\ Len(before) = Len(keys)
                /\ \A i \in 1..Len(keys) :
                      before[i] = Call("delete", calls[p][j].table, <<keys[i]>>, TRUE)
                /\ \A i \in (j + 1)..Len(calls[p]) : calls[p][i].table # calls[p][j].table

C3_Witness ==
    \E p \in Procs : \E j \in 1..Len(calls[p]) :
        /\ calls[p][j].op = "insert"
        /\ calls[p][j].ok
        /\ Len(calls[p][j].keys) >= 2
        /\ clock = 2
        /\ exits = <<0>>

StoreOf(table) ==
    IF table = "firma_tahminleme" THEN firma_tahminleme ELSE girisimci_tahminleme
KeyColOf(table) == IF table = "firma_tahminleme" THEN "firma_id" ELSE "girisimci_id"

\* C4: a failed delete or insert is the last call of its run: the run has
\* ended with status 1, nothing was retried or issued after it, and every id
\* the run had already deleted from that table has no prediction row.
C4_WriteFailureIsFatal ==
    \A p \in Procs : \A j \in 1..Len(calls[p]) :
        ~calls[p][j].ok =>
            /\ j = Len(calls[p])
            /\ pc[p] = "exited"
            /\ exitCode[p] = 1
            /\ \A i \in 1..(j - 1) :
                  (calls[p][i].op = "delete" /\ calls[p][i].table = calls[p][j].table) =>
                      RowsWithKey(StoreOf(calls[p][j].table), KeyColOf(calls[p][j].table),
                                  calls[p][i].keys[1]) = {}

\* a second run that fails after a delete, over the rows a first run left
C4_Witness ==
    \E p \in Procs :
        /\ exits = <<0, 1>>
        /\ Len(calls[p]) >= 2
        /\ ~calls[p][Len(calls[p])].ok
        /\ calls[p][1].op = "delete"
        /\ calls[p][1].ok

\* C5: a run that starts while one of the four required tables is unreadable
\* issues no delete and no insert, and ends in main with status 1.
C5_UnreadableTableAborts ==
    \A p \in Procs :
        unreadable[p] # {} =>
            /\ calls[p] = <<>>
            /\ pc[p] \in {"main", "exited"}
            /\ pc[p] = "exited" => exitCode[p] = 1

\* a second run aborted for an unreadable prediction table, the rows of the
\* first run untouched
C5_Witness ==
    \E p \in Procs :
        /\ unreadable[p] = {"girisimci_tahminleme"}
        /\ pc[p] = "exited"
        /\ exits = <<0, 1>>
        /\ firma_tahminleme # <<>>

\* the entity key the reconciler is to use for a source row: the value of the
\* first candidate id field that has one (<<>>: none has)
RECURSIVE FirstIdValue(_, _, _)
FirstIdValue(table, row, candidates) ==
    IF Len(candidates) = 0 THEN <<>>
    ELSE IF candidates[1] \in table.cols /\ row[candidates[1]] # None
    THEN <<row[candidates[1]]>>
    ELSE FirstIdValue(table, row, Tail(candidates))

ExpectedKeys(table, candidates) ==
    Flatten([i \in 1..Len(table.rows) |-> FirstIdValue(table, table.rows[i], candidates)])

\* C7: the rows a process_* call built carry, in order, the keys of the source
\* rows that have a value in a candidate id field (the first such field in
\* priority order), one row per such source row; the other rows are skipped.
C7_KeyResolution ==
    \A p \in Procs :
        /\ pc[p] \in {"firm_delete", "firm_insert", "gir_build"} =>
              FirmaIds(out_rows[p]) = ExpectedKeys(firmalar, <<"id", "firma_id", "pk">>)
        /\ pc[p] \in {"gir_delete", "gir_insert"} =>
              GirisimciIds(out_rows[p]) = ExpectedKeys(girisimciler, <<"id", "girisimci_id">>)

(***************************************************************************)
(* Claims on the scoring stage                                             *)
(***************************************************************************)
PossibleLabelsOf(kind) ==
    IF kind = "firmalar" THEN FirmPossibleLabels ELSE GirPossibleLabels

\* the rows of a table whose cell in column c coerces to a number
Coercible(table, c) ==
    {i \in 1..Len(table.rows) : IsNum(ToNumeric(table.rows[i][c]))}

\* the table without the columns C
DropColumns(table, C) ==
    Table(table.cols \ C,
          [i \in 1..Len(table.rows) |-> [x \in table.cols \ C |-> table.rows[i][x]]])

\* the rows the scoring stage builds for the table with no label column
UnlabelledOutRows(in) ==
    LET labels == {PossibleLabelsOf(in.kind)[i] : i \in 1..Len(PossibleLabelsOf(in.kind))}
        bare == DropColumns(in.table, labels)
    IN  IF in.kind = "firmalar" THEN FirmStage(bare, <<>>, clock).out_rows
        ELSE GirStage(bare, <<>>, clock).out_rows

\* C6: when a label column is present and fewer than 5 of its values coerce to
\* a number, the trainer returns no metrics, nothing is raised, and the rows
\* built for persisting are those built for the same table without the label
\* column.
C6_FallbackOnFewLabels ==
    scoreOut # <<>> =>
        LET label == FirstPresent(PossibleLabelsOf(scoreIn.kind), scoreIn.table.cols)
        IN  (label # "" /\ Cardinality(Coercible(scoreIn.table, label)) < 5) =>
                /\ ~scoreOut[1].raised
                /\ scoreOut[1].metrics = "none"
                /\ scoreOut[1].out_rows = UnlabelledOutRows(scoreIn)

\* five firms, four of them with a usable label, scored by the fallback
C6_Witness ==
    /\ scoreOut # <<>>
    /\ scoreIn.kind = "firmalar"
    /\ "gercek_getiri" \in scoreIn.table.cols
    /\ Len(scoreIn.table.rows) = 5
    /\ Cardinality(Coercible(scoreIn.table, "gercek_getiri")) = 4
    /\ scoreIn.table.rows[1].gercek_getiri = Str(<<"5">>)
    /\ scoreOut[1].metrics = "none"
    /\ Len(scoreOut[1].out_rows) = 5
    /\ scoreOut[1].out_rows[5].tahmini_getiri = Rat(125, 2)

\* the persisted expected-return scores of the firm with the given id
TahminiOf(id) ==
    {firma_tahminleme[i].tahmini_getiri :
        i \in RowsWithKey(firma_tahminleme, "firma_id", Num(id))}

\* the persisted scores of the scenario rise strictly with revenue
ScenarioIncreasing ==
    \A i, j \in 1..6 :
        Less(ScenarioFirmalar.rows[i].ciro, ScenarioFirmalar.rows[j].ciro) =>
            \A x \in TahminiOf(i) : \A y \in TahminiOf(j) : Less(x, y)

\* C8 as stated: in the scenario of six firms with ciro = 10..60 and no other
\* candidate column, the persisted tahmini_getiri of the minimum-revenue row is
\* 0.0, that of the maximum-revenue row is 100.0, and the scores rise strictly
\* with revenue.
C8_ScenarioMaxIs100 ==
    firmalar = ScenarioFirmalar =>
        /\ TahminiOf(1) \subseteq {Num(0)}
        /\ TahminiOf(6) \subseteq {Num(100)}
        /\ ScenarioIncreasing

\* C8, amended: in that scenario the persisted tahmini_getiri of the
\* minimum-revenue row is 0.0, that of the maximum-revenue row is 62.5
\* (100 * 2.0 / (2.0 + 1.2): the sustainability signal, all zeros, keeps its
\* weight 1.2 in the denominator), and the scores rise strictly with revenue.
C8_ScenarioMaxIs62_5 ==
    firmalar = ScenarioFirmalar =>
        /\ TahminiOf(1) \subseteq {Num(0)}
        /\ TahminiOf(6) \subseteq {Rat(125, 2)}
        /\ ScenarioIncreasing

C8_Witness ==
    /\ firmalar = ScenarioFirmalar
    /\ Len(firma_tahminleme) = 6
    /\ exits = <<0>>
    /\ firma_tahminleme[6].firma_id = Num(6)
    /\ firma_tahminleme[6].tahmini_getiri = Rat(125, 2)

\* the value of signal column c for one raw cell, before normalisation
SignalValue(c, v) ==
    IF c = "kurulma_yili" THEN Sub(Num(CurrentYear), ToNumeric(v))
    ELSE IF c = "kurulma_tarihi" THEN AgeDays(v)
    ELSE ToNumeric(v)

RawSignal(table, c) == [i \in 1..Len(table.rows) |-> SignalValue(c, table.rows[i][c])]

NonDegenerate(s) == \E i, j \in 1..Len(s) : IsNum(s[i]) /\ IsNum(s[j]) /\ s[i] # s[j]

\* (s[i] - min) / (max - min), min and max over the numbers of s
Scaled(s, i) ==
    Div(Sub(s[i], MinOf(NumsOf(s))), Sub(MaxOf(NumsOf(s)), MinOf(NumsOf(s))))

\* a missing value stays missing through normalisation and contributes 0.0;
\* the others are scaled over the non-missing values
MissingStaysMissing(signal, stacked, raw) ==
    NonDegenerate(raw) =>
        \A i \in 1..Len(raw) :
            IF IsNum(raw[i]) THEN signal.norm[i] = Scaled(raw, i)
            ELSE IsNa(signal.norm[i]) /\ stacked[i] = Num(0)

\* a missing value is taken as 0.0 before normalisation: it enters min and
\* max, and contributes its scaled value
MissingTakenAsZero(signal, stacked, raw) ==
    NonDegenerate(FillNa(raw, Num(0))) =>
        \A i \in 1..Len(raw) :
            /\ signal.norm[i] = Scaled(FillNa(raw, Num(0)), i)
            /\ stacked[i] = signal.norm[i]

\* the signals of the scorers that ran, as <<scorer index, signal index>>,
\* that are read from a column of the source table
RawSignals ==
    {p \in (1..2) \X (1..8) :
        /\ scoreOut # <<>>
        /\ p[1] <= Len(scoreOut[1].scorers)
        /\ p[2] <= Len(scoreOut[1].scorers[p[1]].signals)
        /\ scoreOut[1].scorers[p[1]].signals[p[2]].col \in scoreIn.table.cols}

SignalAt(p) == scoreOut[1].scorers[p[1]].signals[p[2]]
StackedAt(p) == scoreOut[1].scorers[p[1]].stacked[p[2]]

\* C9 as stated: in every composite score, for each non-degenerate signal
\* column, a record whose raw value is missing or non-numeric stays missing
\* through normalisation (the others are scaled over the non-missing values
\* only) and gets a 0.0 contribution from the signal.
C9_MissingNeverEntersMinMax ==
    \A p \in RawSignals :
        MissingStaysMissing(SignalAt(p), StackedAt(p), RawSignal(scoreIn.table, SignalAt(p).col))

\* the signal columns normalised as they are
UnfilledColumns ==
    {"karbon_ayak_izi", "su_tuketimi", "atik_miktari", "geri_donusum_orani",
     "kurulma_yili", "kurulma_tarihi"}

\* C9, amended: that holds for karbon_ayak_izi, su_tuketimi, atik_miktari,
\* geri_donusum_orani and the founding year / date; for ciro, gorunurluk_orani,
\* magaza_sayisi, kadin_calisan_sayisi, engelli_calisan_sayisi and
\* talep_edilen_butce a missing or non-numeric value is replaced by 0.0 before
\* normalisation, so it enters the column's min and max and the record gets
\* the scaled value of 0.0 as its contribution.
C9_MissingByColumn ==
    \A p \in RawSignals :
        IF SignalAt(p).col \in UnfilledColumns
        THEN MissingStaysMissing(SignalAt(p), StackedAt(p),
                                 RawSignal(scoreIn.table, SignalAt(p).col))
        ELSE MissingTakenAsZero(SignalAt(p), StackedAt(p),
                                RawSignal(scoreIn.table, SignalAt(p).col))

\* three firms, the first without ciro and without karbon_ayak_izi
C9_Witness ==
    /\ scoreOut # <<>>
    /\ scoreIn.kind = "firmalar"
    /\ scoreIn.table.cols = {"pk", "ciro", "karbon_ayak_izi"}
    /\ Len(scoreIn.table.rows) = 3
    /\ [i \in 1..3 |-> scoreIn.table.rows[i].ciro] = <<None, Num(10), Num(20)>>
    /\ [i \in 1..3 |-> scoreIn.table.rows[i].karbon_ayak_izi] = <<None, Num(10), Num(20)>>
    /\ scoreOut[1].scorers[1].signals[1].norm = <<NaN, Num(0), Num(1)>>
    /\ scoreOut[1].scorers[2].signals[1].norm = <<Num(0), Rat(1, 2), Num(1)>>

(***************************************************************************)
(* Claims on extract_cert_features                                         *)
(***************************************************************************)
\* the four-field record
IsCertRecord(r) ==
    /\ DOMAIN r = {"certificate_count", "has_GOTS", "has_OEKO_TEX", "has_ISO_14001"}
    /\ r.certificate_count \in Nat
    /\ r.has_GOTS \in BOOLEAN
    /\ r.has_OEKO_TEX \in BOOLEAN
    /\ r.has_ISO_14001 \in BOOLEAN

CertRecord(n, gots, oeko, iso) ==
    [certificate_count |-> n, has_GOTS |-> gots, has_OEKO_TEX |-> oeko, has_ISO_14001 |-> iso]

\* C10: extract_cert_features returns the four-field record for every input;
\* null and a text that json.loads rejects give the all-zero record;
\* ["GOTS","OEKO-TEX cert"] gives {2, true, true, false} and the text
\* {"ISO 14001":true} gives {1, false, false, true}.
C10_ExtractIsTotal ==
    certOut # <<>> =>
        /\ IsCertRecord(certOut[1])
        /\ certIn[1] = None => certOut[1] = CertRecord(0, FALSE, FALSE, FALSE)
        /\ (certIn[1].t = "str" /\ (certIn[1].s \in InvalidJsonTexts \/ ~JsonLoads(certIn[1].s).ok))
              => certOut[1] = CertRecord(0, FALSE, FALSE, FALSE)
        /\ certIn[1] = List(<<Str(T_GOTS),
                              Str(<<"O", "E", "K", "O", "-", "T", "E", "X", " ", "c", "e", "r", "t">>)>>)
              => certOut[1] = CertRecord(2, TRUE, TRUE, FALSE)
        /\ certIn[1] = Str(T_ISO_true) => certOut[1] = CertRecord(1, FALSE, FALSE, TRUE)

\* the text GOTS, which is no JSON, extracted
C10_Witness ==
    /\ certIn = <<Str(T_GOTS)>>
    /\ certOut = <<CertRecord(0, FALSE, FALSE, FALSE)>>

(***************************************************************************)
(* Claims on two runs at once                                              *)
(***************************************************************************)
PredictionTables == {"firma_tahminleme", "girisimci_tahminleme"}

\* the positions in the log of the successful calls op of process p on table
\* that name the key
ServedAt(p, op, table, key) ==
    {i \in 1..Len(log) :
        /\ log[i].proc = p
        /\ log[i].call.op = op
        /\ log[i].call.table = table
        /\ log[i].call.ok
        /\ \E j \in 1..Len(log[i].call.keys) : log[i].call.keys[j] = key}

BothRunsSucceeded == \A p \in Procs : pc[p] = "exited" /\ exitCode[p] = 0

\* every delete of the key, of either run, was served before any insert of it
BothDeletedBeforeEitherInserted(table, key) ==
    \A p \in Procs, q \in Procs :
        \A d \in ServedAt(p, "delete", table, key) :
            \A i \in ServedAt(q, "insert", table, key) : d < i

\* C11: two runs at once over the same entity ids, their delete and insert
\* calls served in any order. When both have completed successfully, an
\* entity id has two rows in a prediction table if both runs' deletes of it
\* were served before either run's insert, and exactly one row otherwise.
C11_RaceLeavesOneOrTwoRows ==
    BothRunsSucceeded =>
        \A table \in PredictionTables :
            \A key \in KeysOf(StoreOf(table), KeyColOf(table)) :
                Cardinality(RowsWithKey(StoreOf(table), KeyColOf(table), key)) =
                    IF BothDeletedBeforeEitherInserted(table, key) THEN 2 ELSE 1

\* both runs succeeded; firm 1 has two rows (both deleted, then both
\* inserted) and entrepreneur 1 has one row (the later run deleted the
\* earlier run's row)
C11_Witness ==
    /\ BothRunsSucceeded
    /\ Cardinality(RowsWithKey(firma_tahminleme, "firma_id", Num(1))) = 2
    /\ BothDeletedBeforeEitherInserted("firma_tahminleme", Num(1))
    /\ Cardinality(RowsWithKey(girisimci_tahminleme, "girisimci_id", Num(1))) = 1
    /\ ~BothDeletedBeforeEitherInserted("girisimci_tahminleme", Num(1))

(***************************************************************************)
(* Claims on the order of the two phases of a run                          *)
(***************************************************************************)
CallIdx(p, table) == {j \in 1..Len(calls[p]) : calls[p][j].table = table}

\* process_firmalar has returned in p's current run
FirmPhaseDone(p) ==
    /\ metricsOf[p].firma # "unset"
    /\ pc[p] \notin {"firm_delete", "firm_insert"}
    /\ \A j \in CallIdx(p, "firma_tahminleme") : calls[p][j].ok

\* the run ended with status 1 after process_firmalar had returned
EntrepreneurPhaseFatal(p) ==
    /\ FirmPhaseDone(p)
    /\ pc[p] = "exited"
    /\ exitCode[p] = 1

\* the run ended with status 1 before process_firmalar returned
FirmPhaseFatal(p) ==
    /\ ~FirmPhaseDone(p)
    /\ pc[p] = "exited"
    /\ exitCode[p] = 1

\* every firm id this run inserted has a row carrying this run's timestamp
FirmPredictionsPersisted(p) ==
    \A k \in InsertedKeys(p, "firma_tahminleme") :
        \E i \in RowsWithKey(firma_tahminleme, "firma_id", k) :
            firma_tahminleme[i].olusturulma_tarihi = clock

\* no entrepreneur row carries this run's timestamp
EntrepreneursNotRefreshed ==
    \A i \in 1..Len(girisimci_tahminleme) :
        girisimci_tahminleme[i].gerceklesme_tarihi # clock

\* C12: a run completes the firm phase, its deletes and its insert included,
\* before it does anything of the entrepreneur phase. A run that ends with
\* status 1 in the entrepreneur phase (empty girisimciler, no recognised
\* feature column, failed entrepreneur delete or insert) leaves this run's
\* firm predictions in the store and no entrepreneur prediction of this run;
\* a run that ends with status 1 in the firm phase has issued no entrepreneur
\* delete or insert.
C12_FirmsBeforeEntrepreneurs ==
    \A p \in Procs :
        /\ \A j \in CallIdx(p, "girisimci_tahminleme") :
              /\ metricsOf[p].firma # "unset"
              /\ \A i \in CallIdx(p, "firma_tahminleme") : i < j /\ calls[p][i].ok
        /\ pc[p] \in {"gir_build", "gir_delete", "gir_insert"} =>
              /\ FirmPhaseDone(p)
              /\ FirmPredictionsPersisted(p)
              /\ (pc[p] = "gir_build" /\ out_rows[p] # <<>>) =>
                    {FirmaIds(out_rows[p])[i] : i \in 1..Len(out_rows[p])}
                        = InsertedKeys(p, "firma_tahminleme")
        /\ (FirmPhaseDone(p) /\ pc[p] = "exited") =>
              /\ (\/ Len(girisimciler.rows) = 0
                  \/ GirCandidateFeatures \cap girisimciler.cols = {}
                  \/ \E j \in CallIdx(p, "girisimci_tahminleme") : ~calls[p][j].ok)
                    => exitCode[p] = 1
              /\ (\/ Len(girisimciler.rows) = 0
                  \/ GirCandidateFeatures \cap girisimciler.cols = {})
                    => CallIdx(p, "girisimci_tahminleme") = {}
        /\ EntrepreneurPhaseFatal(p) =>
              /\ FirmPredictionsPersisted(p)
              /\ EntrepreneursNotRefreshed
        /\ FirmPhaseFatal(p) => CallIdx(p, "girisimci_tahminleme") = {}

\* the second run wrote its firm prediction and then found girisimciler empty
C12_Witness ==
    /\ clock = 2
    /\ EntrepreneurPhaseFatal(1)
    /\ Len(girisimciler.rows) = 0
    /\ InsertedKeys(1, "firma_tahminleme") = {Num(1)}
    /\ FirmPredictionsPersisted(1)
    /\ calls[1][Len(calls[1])].table = "firma_tahminleme"

====
